---- MODULE Spec2Model ----
(***************************************************************************)
(* The in-process response cache of backend/main.py: the module-level dict *)
(* response_cache, the request handlers that look it up and store into it  *)
(* (respond, japanese_consultation, text_to_speech, respond_with_audio)    *)
(* and the daemon thread that sweeps it (periodic_cache_cleanup).          *)
(*                                                                         *)
(* Handlers run on the event loop: a handler runs without interruption by  *)
(* another handler from one await to the next.  The sweep runs on its own  *)
(* thread, so its steps interleave with the handlers' steps anywhere.      *)
(* Time is in seconds.                                                     *)
(*                                                                         *)
(* Next to the cache: the listening endpoints, the translation problem and *)
(* answer grading endpoints, and services/listening_service.py.            *)
(***************************************************************************)
EXTENDS Integers, Sequences, FiniteSets, TLC

\* main.py:54
CACHE_TTL == 300
\* main.py:366, the "+ 30" of the error entry's timestamp
ERROR_TTL == 30
\* main.py:847, time.sleep(300)
SLEEP_SECONDS == 300
\* main.py:50, ThreadPoolExecutor(max_workers=4)
max_workers == 4
\* main.py:1333, the gap get_listening_problem keeps between two requests to
\* the trivia API
RATE_LIMIT_SECONDS == 5

\* Bounds of the model: the last instant of the clock, the requests served
\* with two handler slots, the requests served one at a time, and the
\* requests served with all handler slots, the conversation requests
\* served with two handler slots, and the calls of the functions that keep
\* nothing between two calls.
MaxTime == 310
MaxRequests == 2
MaxSeqRequests == 3
MaxPoolRequests == 5
MaxPairRequests == 2
MaxApiRequests == 3

\* The instants at which the clock is read: they give every key ages below,
\* at and above both TTLs, before and after the cleanup thread's first wake.
Instants == {0, 10, 30, 300, 310}

\* Handler slots: the requests the event loop is serving at one time.
Procs == {1, 2}
AllProcs == {1, 2, 3, 4, 5}
Texts == {"hello", "bye"}
Histories == {"[]"}
Voices == {"Kore"}
Rates == {"1.0"}
Replies == {"Hi there"}
Audios == {"QUJD"}

\* hash() of a str is salted per process (PYTHONHASHSEED): the process draws
\* one hash function at start.  Two representatives: seed 0 keeps the texts
\* apart, seed 1 makes "hello" and "bye" collide.
Seeds == {0, 1}
HashTable ==
  [s \in Seeds |->
     [x \in Texts \cup Histories |->
        IF x = "[]" THEN 7
        ELSE IF x = "hello" THEN 1
        ELSE IF s = 0 THEN 2 ELSE 1]]
HashValues == {1, 2, 7}

VARIABLES
  now,             \* time.time()
  hash_seed,       \* the salt of hash()
  GEMINI_API_KEY,  \* TRUE when the key is set: model and tts_model are built
  response_cache,  \* the dict: key -> (data, timestamp)
  req,             \* per handler slot: the request being served
  nreq,            \* requests started so far
  reaper,          \* the cleanup thread
  lastStore,       \* history: per key, the last assignment response_cache[key] = ...
  work_queue,      \* executor: the slots whose call waits for a free worker
  last_request_time  \* get_listening_problem._last_request_time; -1: not set

vars == <<now, hash_seed, GEMINI_API_KEY, response_cache, req, nreq, reaper,
          lastStore, work_queue, last_request_time>>

model == GEMINI_API_KEY
tts_model == GEMINI_API_KEY

hash(x) == HashTable[hash_seed][x]

----------------------------------------------------------------------------
\* Cache keys.  The f-strings join a prefix and the parts with "_"; the parts
\* are kept as the fields of a record.

ResponseKey(prefix, text, history) ==
  [prefix |-> prefix, h |-> hash(text), hh |-> hash(history),
   voice_name |-> "", speaking_rate |-> ""]

TtsKey(text, voice_name, speaking_rate) ==
  [prefix |-> "tts", h |-> hash(text), hh |-> 0,
   voice_name |-> voice_name, speaking_rate |-> speaking_rate]

NoKey == [prefix |-> "", h |-> 0, hh |-> 0, voice_name |-> "", speaking_rate |-> ""]

AllKeys ==
  {[prefix |-> p, h |-> v, hh |-> w, voice_name |-> "", speaking_rate |-> ""] :
      p \in {"response", "consultation"}, v \in HashValues, w \in HashValues}
  \cup
  {[prefix |-> "tts", h |-> v, hh |-> 0, voice_name |-> vn, speaking_rate |-> r] :
      v \in HashValues, vn \in Voices, r \in Rates}

----------------------------------------------------------------------------
\* Values: what a handler returns and what the cache stores.

Data(kind, reply, audio, ctype, browser, fallback, err) ==
  [kind |-> kind, reply |-> reply, audio_data |-> audio, content_type |-> ctype,
   use_browser_tts |-> browser, fallback_text |-> fallback, error |-> err]

NoData == Data("none", "", "", "", FALSE, "", "")

\* Response(reply=...), and the str stored by respond / japanese_consultation
TextData(reply) == Data("text", reply, "", "", FALSE, "", "")

\* main.py:325-333 (the key use_browser_tts is absent from this dict: readers
\* take it as False, main.py:578)
TtsResult(audio, mime_type) == Data("tts", "", audio, mime_type, FALSE, "", "")
\* A fallback without content_type.
FallbackResult_NoType(text) ==
  [kind |-> "tts", reply |-> "", audio_data |-> "", content_type |-> "",
   use_browser_tts |-> TRUE, fallback_text |-> text, error |-> ""]
\* main.py:340-345
FallbackResult(text) == Data("tts", "", "", "text/plain", TRUE, text, "")
\* main.py:356-362
ErrorResult(text, e) == Data("tts", "", "", "text/plain", TRUE, text, e)

Entry(data, timestamp) == [data |-> data, timestamp |-> timestamp]

\* A store that is lost.
Put_Skip(cache, key, data, timestamp) == cache

\* A store that leaves the entry of a key that is already there.
Put_KeepFirst(cache, key, data, timestamp) ==
  IF key \in DOMAIN cache
    THEN cache
    ELSE [k \in DOMAIN cache \cup {key} |->
            IF k = key THEN [data |-> data, timestamp |-> timestamp] ELSE cache[k]]

\* A store that drops every other entry.
Put_Evict(cache, key, data, timestamp) ==
  [k \in {key} |-> [data |-> data, timestamp |-> timestamp]]

\* response_cache[key] = (data, timestamp)
Put(cache, key, data, timestamp) ==
  [k \in DOMAIN cache \cup {key} |->
     IF k = key THEN Entry(data, timestamp) ELSE cache[k]]

\* del response_cache[key], for every key of keys
Del(cache, keys) == [k \in DOMAIN cache \ keys |-> cache[k]]

\* The TTL test with <= for <.
Fresh_Inclusive(timestamp, t) == t - timestamp <= CACHE_TTL

\* main.py:249, 425, 476, 569: time.time() - timestamp < CACHE_TTL
Fresh(timestamp, t) == t - timestamp < CACHE_TTL

\* The sweep's test with >= for >.
Expired_Inclusive(timestamp, current_time) == current_time - timestamp >= CACHE_TTL

\* main.py:830: current_time - timestamp > CACHE_TTL
Expired(timestamp, current_time) == current_time - timestamp > CACHE_TTL

\* main.py:366: time.time() - CACHE_TTL + 30
ErrorTimestamp(t) == t - CACHE_TTL + ERROR_TTL

----------------------------------------------------------------------------
\* What the external models answer.  raised: generate_content raised.
\* text "": response.text is empty.  inline_data FALSE: the response has no
\* part with inline_data.  audio: the data of the part, "" when it is empty
\* (a part that carries a mime_type and no bytes).  valid FALSE: the data is
\* no base64 (main.py:319-323).

TextOutcomes ==
  {[raised |-> FALSE, text |-> r] : r \in Replies \cup {""}}
  \cup {[raised |-> TRUE, text |-> ""]}

TtsOutcomes ==
  {[raised |-> FALSE, inline_data |-> a # "", audio |-> a, valid |-> TRUE] :
      a \in Audios \cup {""}}
  \cup {[raised |-> FALSE, inline_data |-> TRUE, audio |-> "%%%", valid |-> FALSE],
        [raised |-> FALSE, inline_data |-> TRUE, audio |-> "", valid |-> TRUE],
        [raised |-> TRUE, inline_data |-> FALSE, audio |-> "", valid |-> TRUE]}

\* What the trivia API answers: a question, or anything that makes the
\* handler raise (HTTP error, timeout after 15 s, response_code # 0).
TriviaOutcomes == {[raised |-> FALSE, text |-> "Which planet?"],
                   [raised |-> TRUE, text |-> ""]}

\* The fixed replies of respond (main.py:414, 444, 451) and of
\* japanese_consultation (main.py:465, 497, 504).
NoKeyReply(ep) == IF ep = "respond" THEN "API key not configured" ELSE "JA: API key not configured"
EmptyReply(ep) == IF ep = "respond" THEN "Sorry, I couldn't generate a response" ELSE "JA: couldn't generate"
ErrorReply(ep) == IF ep = "respond" THEN "Sorry, there was an error" ELSE "JA: error"
Prefix(ep) == IF ep = "respond" THEN "response" ELSE "consultation"

----------------------------------------------------------------------------
\* History records.

NoStore == [valid |-> FALSE, data |-> NoData, t0 |-> 0, cat |-> ""]
Stored(data, t, cat) == [valid |-> TRUE, data |-> data, t0 |-> t, cat |-> cat]

\* t: when the request reached its pc (the lookup's time while computing,
\* the time of the answer when done).
\* wake: the end of the handler's asyncio.sleep, when it sleeps.
\* args: the arguments of the call, where a later step reads them.
IdleReq ==
  [pc |-> "idle", endpoint |-> "", text |-> "", key |-> NoKey, t |-> 0,
   hit |-> FALSE, computed |-> FALSE, outcome |-> "", status |-> 0,
   body |-> NoData, wake |-> 0, args |-> <<>>]

\* A request arrives at handler slot p.
Arrive(p, ep, text, key) ==
  [IdleReq EXCEPT !.endpoint = ep, !.text = text, !.key = key]

Free(p) == req[p].pc = "idle"

\* The event loop thread is not inside a synchronous call: handlers run.
LoopFree == \A q \in AllProcs : req[q].pc # "blocking"

\* A new request takes the lowest free slot.
CanStart(p) ==
  /\ LoopFree
  /\ Free(p)
  /\ \A q \in AllProcs : q < p => ~Free(q)

Init ==
  /\ now = 0
  /\ hash_seed \in Seeds
  /\ GEMINI_API_KEY \in BOOLEAN
  /\ response_cache = <<>>
  /\ req = [p \in AllProcs |-> IdleReq]
  /\ nreq = 0
  /\ reaper = [pc |-> "sleep", wake_at |-> SLEEP_SECONDS, current_time |-> 0,
               expired_keys |-> {}, iter_len |-> 0, removed |-> 0]
  /\ lastStore = [k \in AllKeys |-> NoStore]
  /\ work_queue = <<>>
  /\ last_request_time = -1

----------------------------------------------------------------------------
\* How a handler ends.

Return(r, status, body, hit, outcome) ==
  [r EXCEPT !.pc = "done", !.status = status, !.body = body, !.hit = hit,
            !.outcome = outcome, !.t = now]

\* The handler passed the lookup without a hit and hands its call of
\* generate_content to the executor (run_in_executor), then awaits it.
Dispatch(r) == [r EXCEPT !.pc = "computing", !.computed = TRUE, !.t = now]

NoteStore(key, data, cat) ==
  lastStore' = [lastStore EXCEPT ![key] = Stored(data, now, cat)]

----------------------------------------------------------------------------
\* executor = ThreadPoolExecutor(max_workers=4), main.py:50.

\* The slots whose call a worker thread is executing.
PoolRunning == {q \in AllProcs : req[q].pc = "computing"}

\* loop.run_in_executor(executor, ...) by the handler of slot p, whose record
\* is r: a free worker takes the call at once, otherwise it waits in the
\* executor's queue.
Submit(p, r) ==
  IF Cardinality(PoolRunning) < max_workers
    THEN /\ req' = [req EXCEPT ![p] = Dispatch(r)]
         /\ UNCHANGED work_queue
    ELSE /\ req' = [req EXCEPT ![p] = [Dispatch(r) EXCEPT !.pc = "queued"]]
         /\ work_queue' = Append(work_queue, p)

\* The handler of slot p goes on with record r.  When it was awaiting a call
\* in the executor, the worker that ran it takes the next call of the queue.
Release(p, r) ==
  IF req[p].pc = "computing" /\ work_queue # <<>>
    THEN /\ req' = [req EXCEPT ![p] = r, ![Head(work_queue)].pc = "computing"]
         /\ work_queue' = Tail(work_queue)
    ELSE /\ req' = [req EXCEPT ![p] = r]
         /\ UNCHANGED work_queue

----------------------------------------------------------------------------
\* respond (ep = "respond", main.py:405-452) and japanese_consultation
\* (ep = "japanese_consultation", main.py:456-505): the same code but for the
\* key prefix and the fixed replies.

\* From the entry to the membership test `cache_key in response_cache`.
TextCall(p, ep, text, history) ==
  /\ CanStart(p)
  /\ nreq' = nreq + 1
  /\ IF ~model
       THEN /\ req' = [req EXCEPT ![p] =
                         Return(Arrive(p, ep, "", NoKey), 200,
                                TextData(NoKeyReply(ep)), FALSE, "nokey")]
            /\ UNCHANGED work_queue
       ELSE LET cache_key == ResponseKey(Prefix(ep), text, history)
                r == Arrive(p, ep, "", cache_key)
            IN  IF cache_key \in DOMAIN response_cache
                  THEN /\ req' = [req EXCEPT ![p] = [r EXCEPT !.pc = "checked"]]
                       /\ UNCHANGED work_queue
                  ELSE Submit(p, r)
  /\ UNCHANGED <<now, hash_seed, GEMINI_API_KEY, response_cache, reaper,
                 lastStore, last_request_time>>

\* `cached_data, timestamp = response_cache[cache_key]` and the TTL test.
\* The subscript raises KeyError when the sweep deleted the key after the
\* membership test; `except Exception` answers with the error reply.
TextRead(p, ep) ==
  /\ LoopFree
  /\ req[p].pc = "checked"
  /\ req[p].endpoint = ep
  /\ LET cache_key == req[p].key IN
     IF cache_key \notin DOMAIN response_cache
       THEN LET r == Return(req[p], 200, TextData(ErrorReply(ep)), FALSE, "keyerror")
            IN  /\ req' = [req EXCEPT ![p] = r]
                /\ UNCHANGED work_queue
       ELSE LET cached_data == response_cache[cache_key].data
                timestamp == response_cache[cache_key].timestamp
            IN  IF Fresh(timestamp, now)
                  THEN LET r == Return(req[p], 200, TextData(cached_data.reply), TRUE, "ok")
                       IN  /\ req' = [req EXCEPT ![p] = r]
                           /\ UNCHANGED work_queue
                  ELSE Submit(p, req[p])
  /\ UNCHANGED <<now, hash_seed, GEMINI_API_KEY, response_cache, nreq, reaper,
                 lastStore, last_request_time>>

\* The awaited generate_content call ends with `out`.
TextComplete(p, ep, out) ==
  /\ LoopFree
  /\ req[p].pc = "computing"
  /\ req[p].endpoint = ep
  /\ LET cache_key == req[p].key IN
     IF out.raised
       THEN LET r == Return(req[p], 200, TextData(ErrorReply(ep)), FALSE, "raise")
            IN  /\ Release(p, r)
                /\ UNCHANGED <<response_cache, lastStore>>
       ELSE IF out.text # ""
         THEN LET r == Return(req[p], 200, TextData(out.text), FALSE, "ok")
              IN  /\ response_cache' = Put(response_cache, cache_key, TextData(out.text), now)
                  /\ NoteStore(cache_key, TextData(out.text), "success")
                  /\ Release(p, r)
         ELSE LET r == Return(req[p], 200, TextData(EmptyReply(ep)), FALSE, "empty")
              IN  /\ Release(p, r)
                  /\ UNCHANGED <<response_cache, lastStore>>
  /\ UNCHANGED <<now, hash_seed, GEMINI_API_KEY, nreq, reaper,
                 last_request_time>>

respond_call(p, text, history) == TextCall(p, "respond", text, history)
respond_read(p) == TextRead(p, "respond")
respond_complete(p, out) == TextComplete(p, "respond", out)

japanese_consultation_call(p, text, history) ==
  TextCall(p, "japanese_consultation", text, history)
japanese_consultation_read(p) == TextRead(p, "japanese_consultation")
japanese_consultation_complete(p, out) ==
  TextComplete(p, "japanese_consultation", out)

----------------------------------------------------------------------------
\* text_to_speech, main.py:233-368.

\* From the entry to the membership test `tts_cache_key in response_cache`.
text_to_speech_call(p, text, voice_name, speaking_rate) ==
  /\ CanStart(p)
  /\ nreq' = nreq + 1
  /\ IF ~tts_model
       THEN \* raise HTTPException(status_code=503)
            /\ req' = [req EXCEPT ![p] =
                         Return(Arrive(p, "text_to_speech", text, NoKey), 503,
                                NoData, FALSE, "http503")]
            /\ UNCHANGED work_queue
       ELSE LET tts_cache_key == TtsKey(text, voice_name, speaking_rate)
                r == Arrive(p, "text_to_speech", text, tts_cache_key)
            IN  IF tts_cache_key \in DOMAIN response_cache
                  THEN /\ req' = [req EXCEPT ![p] = [r EXCEPT !.pc = "checked"]]
                       /\ UNCHANGED work_queue
                  ELSE Submit(p, r)
  /\ UNCHANGED <<now, hash_seed, GEMINI_API_KEY, response_cache, reaper,
                 lastStore, last_request_time>>

\* main.py:353-368: `except Exception as e` stores error_result with a
\* timestamp that leaves it 30 seconds of freshness, and returns it.
TtsExcept(p, e) ==
  LET tts_cache_key == req[p].key
      error_result == ErrorResult(req[p].text, e)
      r == Return(req[p], 200, error_result, FALSE, "raise")
  IN  /\ response_cache' = Put(response_cache, tts_cache_key, error_result,
                               ErrorTimestamp(now))
      /\ NoteStore(tts_cache_key, error_result, "error")
      /\ Release(p, r)

\* `cached_data, timestamp = response_cache[tts_cache_key]` and the TTL test.
text_to_speech_read(p) ==
  /\ LoopFree
  /\ req[p].pc = "checked"
  /\ req[p].endpoint = "text_to_speech"
  /\ LET tts_cache_key == req[p].key IN
     IF tts_cache_key \notin DOMAIN response_cache
       THEN TtsExcept(p, "str(e)")
       ELSE LET cached_data == response_cache[tts_cache_key].data
                timestamp == response_cache[tts_cache_key].timestamp
            IN  IF Fresh(timestamp, now)
                  THEN LET r == Return(req[p], 200, cached_data, TRUE, "ok")
                       IN  /\ req' = [req EXCEPT ![p] = r]
                           /\ UNCHANGED <<response_cache, lastStore, work_queue>>
                  ELSE /\ Submit(p, req[p])
                       /\ UNCHANGED <<response_cache, lastStore>>
  /\ UNCHANGED <<now, hash_seed, GEMINI_API_KEY, nreq, reaper,
                 last_request_time>>

\* The awaited tts_model.generate_content call ends with `out`.
text_to_speech_complete(p, out) ==
  /\ LoopFree
  /\ req[p].pc = "computing"
  /\ req[p].endpoint = "text_to_speech"
  /\ LET tts_cache_key == req[p].key IN
     IF out.raised
       THEN TtsExcept(p, "str(e)")
       ELSE IF out.inline_data
         THEN IF ~out.valid
                THEN \* raise ValueError("Invalid base64 audio data")
                     TtsExcept(p, "str(e)")
                ELSE LET result == TtsResult(out.audio, "audio/wav")
                         r == Return(req[p], 200, result, FALSE,
                                     IF out.audio # "" THEN "ok" ELSE "emptyaudio")
                     IN  /\ response_cache' = Put(response_cache, tts_cache_key, result, now)
                         /\ NoteStore(tts_cache_key, result, "success")
                         /\ Release(p, r)
         ELSE LET fallback_result == FallbackResult(req[p].text)
                  r == Return(req[p], 200, fallback_result, FALSE, "noaudio")
              IN  /\ response_cache' = Put(response_cache, tts_cache_key, fallback_result, now)
                  /\ NoteStore(tts_cache_key, fallback_result, "success")
                  /\ Release(p, r)
  /\ UNCHANGED <<now, hash_seed, GEMINI_API_KEY, nreq, reaper,
                 last_request_time>>

----------------------------------------------------------------------------
\* respond_with_audio, main.py:509-690.  The function holds `import time`
\* (main.py:533), which makes `time` a local name of the whole function, so
\* `start_time = time.time()` (main.py:522), which runs before the import
\* and outside the try, raises UnboundLocalError on every call.  Nothing
\* below that line ever runs.
respond_with_audio(p, text, history) ==
  /\ CanStart(p)
  /\ nreq' = nreq + 1
  /\ req' = [req EXCEPT ![p] =
               Return(Arrive(p, "respond_with_audio", "", NoKey), 500,
                      NoData, FALSE, "UnboundLocalError")]
  /\ UNCHANGED <<now, hash_seed, GEMINI_API_KEY, response_cache, reaper,
                 lastStore, work_queue, last_request_time>>

----------------------------------------------------------------------------
\* check_listening_answer, main.py:1465-1559.  The handler calls
\* model.generate_content(prompt) itself (main.py:1508), without
\* run_in_executor: the call runs on the event loop thread, and no other
\* handler runs until it returns.

FeedbackData(feedback) == Data("feedback", feedback, "", "", FALSE, "", "")

check_listening_answer_call(p) ==
  /\ CanStart(p)
  /\ nreq' = nreq + 1
  /\ LET r == Arrive(p, "check_listening_answer", "", NoKey) IN
     IF model
       THEN req' = [req EXCEPT ![p] =
                      [r EXCEPT !.pc = "blocking", !.computed = TRUE, !.t = now]]
       ELSE req' = [req EXCEPT ![p] =
                      Return(r, 200, FeedbackData("simple feedback"), FALSE, "nokey")]
  /\ UNCHANGED <<now, hash_seed, GEMINI_API_KEY, response_cache, reaper,
                 lastStore, work_queue, last_request_time>>

\* model.generate_content returns or raises; the handler answers with the
\* feedback of the model or with the fixed fallback feedback.
check_listening_answer_return(p, out) ==
  /\ req[p].pc = "blocking"
  /\ req' = [req EXCEPT ![p] =
               IF ~out.raised /\ out.text # ""
                 THEN Return(req[p], 200, FeedbackData(out.text), FALSE, "ok")
                 ELSE Return(req[p], 200, FeedbackData("fallback feedback"),
                             FALSE, "raise")]
  /\ UNCHANGED <<now, hash_seed, GEMINI_API_KEY, response_cache, nreq, reaper,
                 lastStore, work_queue, last_request_time>>

----------------------------------------------------------------------------
\* get_listening_problem, main.py:1269-1461.  The trivia API is called with
\* httpx.AsyncClient on the event loop (main.py:1340-1341), not through the
\* executor.

ProblemData(question) == Data("problem", question, "", "", FALSE, "", "")

\* From the entry to the rate limit test (main.py:1326-1338).
get_listening_problem_call(p) ==
  /\ CanStart(p)
  /\ nreq' = nreq + 1
  /\ LET r == Arrive(p, "get_listening_problem", "", NoKey)
         current_time == now
         time_since_last == current_time - last_request_time
     IN  IF last_request_time # -1 /\ time_since_last < RATE_LIMIT_SECONDS
           THEN \* await asyncio.sleep(wait_time)
                /\ req' = [req EXCEPT ![p] =
                             [r EXCEPT !.pc = "sleeping", !.t = now,
                                       !.wake = last_request_time + RATE_LIMIT_SECONDS]]
                /\ UNCHANGED last_request_time
           ELSE /\ req' = [req EXCEPT ![p] =
                             [r EXCEPT !.pc = "http", !.computed = TRUE, !.t = now]]
                /\ last_request_time' = now
  /\ UNCHANGED <<now, hash_seed, GEMINI_API_KEY, response_cache, reaper,
                 lastStore, work_queue>>

\* The sleep is over: _last_request_time is set and the request is sent.
get_listening_problem_wake(p) ==
  /\ LoopFree
  /\ req[p].pc = "sleeping"
  /\ now >= req[p].wake
  /\ req' = [req EXCEPT ![p] =
               [req[p] EXCEPT !.pc = "http", !.computed = TRUE, !.t = now]]
  /\ last_request_time' = now
  /\ UNCHANGED <<now, hash_seed, GEMINI_API_KEY, response_cache, nreq, reaper,
                 lastStore, work_queue>>

\* The awaited client.get ends with `out`; `except Exception` answers with
\* a fallback problem.
get_listening_problem_complete(p, out) ==
  /\ LoopFree
  /\ req[p].pc = "http"
  /\ req' = [req EXCEPT ![p] =
               IF out.raised
                 THEN Return(req[p], 200, ProblemData("fallback problem"), FALSE, "raise")
                 ELSE Return(req[p], 200, ProblemData(out.text), FALSE, "ok")]
  /\ UNCHANGED <<now, hash_seed, GEMINI_API_KEY, response_cache, nreq, reaper,
                 lastStore, work_queue, last_request_time>>

----------------------------------------------------------------------------
\* check_instant_translation_answer, main.py:1561-1637.

\* The characters of the strings the handler looks into.
Chars(s) ==
  CASE s = "Excellent!" -> <<"E", "x", "c", "e", "l", "l", "e", "n", "t", "!">>
    [] s = "Good!" -> <<"G", "o", "o", "d", "!">>
    [] s = "Not quite right" ->
         <<"N", "o", "t", " ", "q", "u", "i", "t", "e", " ", "r", "i", "g", "h", "t">>
    [] s = "Incorrect" -> <<"I", "n", "c", "o", "r", "r", "e", "c", "t">>
    [] s = "Try again" -> <<"T", "r", "y", " ", "a", "g", "a", "i", "n">>
    [] s = "correct" -> <<"c", "o", "r", "r", "e", "c", "t">>
    [] s = "good" -> <<"g", "o", "o", "d">>
    [] s = "excellent" -> <<"e", "x", "c", "e", "l", "l", "e", "n", "t">>
    [] s = "right" -> <<"r", "i", "g", "h", "t">>
    [] s = "Hello" -> <<"H", "e", "l", "l", "o">>
    [] s = " hello " -> <<" ", "h", "e", "l", "l", "o", " ">>
    [] s = "Hi" -> <<"H", "i">>
    [] s = " " -> <<" ">>
    [] s = "5" -> <<"5">>
    [] s = "3" -> <<"3">>
    [] s = "1" -> <<"1">>
    [] s = "9" -> <<"9">>
    [] OTHER -> <<>>

\* str.lower()
lower(cs) ==
  [i \in 1..Len(cs) |->
     CASE cs[i] = "E" -> "e"
       [] cs[i] = "G" -> "g"
       [] cs[i] = "H" -> "h"
       [] cs[i] = "I" -> "i"
       [] cs[i] = "N" -> "n"
       [] cs[i] = "T" -> "t"
       [] OTHER -> cs[i]]

\* str.strip()
strip(cs) ==
  LET inner == {i \in 1..Len(cs) : cs[i] # " "}
      first == CHOOSE i \in inner : \A j \in inner : i <= j
      last == CHOOSE i \in inner : \A j \in inner : j <= i
  IN  IF inner = {} THEN <<>> ELSE SubSeq(cs, first, last)

\* `word in ai_feedback.lower()`: word is a substring.
Contains(word, cs) ==
  \E i \in 1..(Len(cs) - Len(word) + 1) : SubSeq(cs, i, i + Len(word) - 1) = word

\* main.py:1608-1611
PositiveWords == {"correct", "good", "excellent", "right"}
AiVerdict(ai_feedback) ==
  \E word \in PositiveWords : Contains(Chars(word), lower(Chars(ai_feedback)))

\* main.py:1579-1582
SimpleVerdict(userAnswer, correctAnswer) ==
  strip(lower(Chars(userAnswer))) = strip(lower(Chars(correctAnswer)))

InstantTranslationCheckResponse(isCorrect, feedback, score) ==
  [isCorrect |-> isCorrect, feedback |-> feedback, score |-> score,
   suggestions |-> <<>>]

\* The feedback the prompt asks the model to begin with (main.py:1669-1674),
\* and two that it does not ask for.
Feedbacks == {"Excellent!", "Good!", "Not quite right", "Incorrect", "Try again"}
CorrectAnswers == {"Hello"}
UserAnswers == {"Hello", " hello ", "Hi"}

\* What the model answers to the check prompt.
CheckOutcomes ==
  {[raised |-> FALSE, text |-> f] : f \in Feedbacks \cup {""}}
  \cup {[raised |-> TRUE, text |-> ""]}

\* From the entry to run_in_executor (main.py:1576-1602).  req.japanese goes
\* into the prompt only.
check_instant_translation_answer_call(p, correctAnswer, userAnswer) ==
  /\ CanStart(p)
  /\ nreq' = nreq + 1
  /\ LET r == Arrive(p, "check_instant_translation_answer", userAnswer, NoKey) IN
     IF ~model
       THEN LET is_correct == SimpleVerdict(userAnswer, correctAnswer)
                body == InstantTranslationCheckResponse(
                          is_correct,
                          IF is_correct THEN "Good try! Keep practicing."
                                        ELSE "Close, but not quite right. Try again!",
                          IF is_correct THEN 100 ELSE 50)
            IN  /\ req' = [req EXCEPT ![p] = Return(r, 200, body, FALSE, "nokey")]
                /\ UNCHANGED work_queue
       ELSE Submit(p, r)
  /\ UNCHANGED <<now, hash_seed, GEMINI_API_KEY, response_cache, reaper,
                 lastStore, last_request_time>>

\* The awaited generate_content call ends with `out` (main.py:1604-1637).
check_instant_translation_answer_complete(p, out) ==
  /\ LoopFree
  /\ req[p].pc = "computing"
  /\ req[p].endpoint = "check_instant_translation_answer"
  /\ IF out.raised
       THEN \* raise HTTPException(status_code=500)
            Release(p, Return(req[p], 500, NoData, FALSE, "http500"))
       ELSE IF out.text # ""
         THEN LET ai_feedback == out.text
                  is_correct == AiVerdict(ai_feedback)
                  score == IF is_correct THEN 100 ELSE 70
              IN  Release(p, Return(req[p], 200,
                                    InstantTranslationCheckResponse(
                                      is_correct, ai_feedback, score),
                                    FALSE, "ok"))
         ELSE Release(p, Return(req[p], 200,
                                InstantTranslationCheckResponse(
                                  FALSE, "Sorry, I couldn't evaluate your answer properly. Please try again.", 50),
                                FALSE, "empty"))
  /\ UNCHANGED <<now, hash_seed, GEMINI_API_KEY, response_cache, nreq, reaper,
                 lastStore, last_request_time>>

----------------------------------------------------------------------------
\* get_instant_translation_problem, main.py:1053-1262.

\* main.py:901-1050.  Every problem is the pair of a Japanese sentence and
\* its English translation; the English sentence stands for the pair.
TRANSLATION_PROBLEMS ==
  <<
    [english |-> "It's nice weather today.",
     difficulty |-> "easy", category |-> "weather"],
    [english |-> "I went to see a movie with my friend yesterday.",
     difficulty |-> "medium", category |-> "daily_life"],
    [english |-> "There will be a meeting next Friday.",
     difficulty |-> "medium", category |-> "business"],
    [english |-> "If you have time, would you like to go shopping together?",
     difficulty |-> "hard", category |-> "invitation"],
    [english |-> "She gets up at 7 o'clock every morning.",
     difficulty |-> "easy", category |-> "daily_routine"],
    [english |-> "This book is too difficult for me.",
     difficulty |-> "medium", category |-> "opinion"],
    [english |-> "The train is delayed, so I might be a little late.",
     difficulty |-> "hard", category |-> "transportation"],
    [english |-> "I'm planning to go to Hokkaido with my family during summer vacation.",
     difficulty |-> "medium", category |-> "travel"],
    [english |-> "Studying Japanese is fun.",
     difficulty |-> "easy", category |-> "learning"],
    [english |-> "If it rains, I intend to stay home.",
     difficulty |-> "hard", category |-> "conditional"],
    [english |-> "How is the progress of the project?",
     difficulty |-> "medium", category |-> "work"],
    [english |-> "I will be transferred to a new department starting next month.",
     difficulty |-> "hard", category |-> "work"],
    [english |-> "I have a question about this proposal.",
     difficulty |-> "medium", category |-> "work"],
    [english |-> "I need to prepare materials for the meeting.",
     difficulty |-> "easy", category |-> "work"],
    [english |-> "Would it be possible to extend the deadline?",
     difficulty |-> "hard", category |-> "work"],
    [english |-> "I downloaded a new app.",
     difficulty |-> "easy", category |-> "technology"],
    [english |-> "My computer has stopped working.",
     difficulty |-> "medium", category |-> "technology"],
    [english |-> "This software is very user-friendly.",
     difficulty |-> "medium", category |-> "technology"],
    [english |-> "I have a headache, so I'm going to the hospital.",
     difficulty |-> "easy", category |-> "health"],
    [english |-> "I try to exercise every day.",
     difficulty |-> "medium", category |-> "health"],
    [english |-> "It's important to have a balanced diet.",
     difficulty |-> "hard", category |-> "health"],
    [english |-> "I'm majoring in economics at university.",
     difficulty |-> "medium", category |-> "education"],
    [english |-> "I'm doing my homework at the library.",
     difficulty |-> "easy", category |-> "education"],
    [english |-> "I have to prepare for the upcoming exam.",
     difficulty |-> "medium", category |-> "education"]
  >>

\* main.py:1173-1181 (and 1124-1132)
eiken_to_difficulty ==
  ("5" :> "easy") @@ ("4" :> "easy") @@ ("3" :> "medium") @@ ("pre-2" :> "medium")
  @@ ("2" :> "medium") @@ ("pre-1" :> "hard") @@ ("1" :> "hard")

\* main.py:1188-1192
difficulty_mapping ==
  ("basic" :> "easy") @@ ("intermediate" :> "medium") @@ ("advanced" :> "hard")

\* main.py:1213-1222
category_mapping ==
  ("daily_life" :> {"daily_life", "daily_routine", "preferences"})
  @@ ("work" :> {"business", "work"})
  @@ ("travel" :> {"travel", "transportation"})
  @@ ("education" :> {"learning", "education"})
  @@ ("technology" :> {"technology"})
  @@ ("health" :> {"health"})
  @@ ("culture" :> {"general"})
  @@ ("environment" :> {"general"})

\* The eiken level is not looked at.
target_difficulty_NoEiken(difficulty, eiken_level) ==
  IF difficulty # "all"
    THEN IF difficulty \in DOMAIN difficulty_mapping
           THEN difficulty_mapping[difficulty] ELSE "medium"
    ELSE "all"

\* main.py:1183-1196
target_difficulty(difficulty, eiken_level) ==
  IF eiken_level # "" /\ eiken_level \in DOMAIN eiken_to_difficulty
    THEN eiken_to_difficulty[eiken_level]
    ELSE IF difficulty # "all"
      THEN IF difficulty \in DOMAIN difficulty_mapping
             THEN difficulty_mapping[difficulty] ELSE "medium"
      ELSE "all"

\* main.py:1224: category_mapping.get(category, [category])
target_categories(category) ==
  IF category \in DOMAIN category_mapping
    THEN category_mapping[category] ELSE {category}

\* main.py:1198-1233: the positions in TRANSLATION_PROBLEMS of the problems
\* random.choice draws from.
filtered_problems(difficulty, category, eiken_level) ==
  LET all == DOMAIN TRANSLATION_PROBLEMS
      td == target_difficulty(difficulty, eiken_level)
      by_difficulty ==
        IF td = "all" THEN all
        ELSE {i \in all : TRANSLATION_PROBLEMS[i].difficulty = td}
      by_category ==
        IF category # "all"
          THEN {i \in by_difficulty :
                  TRANSLATION_PROBLEMS[i].category \in target_categories(category)}
          ELSE by_difficulty
  IN  IF by_category = {} THEN all ELSE by_category

InstantTranslationProblem(english, difficulty, category) ==
  [english |-> english, difficulty |-> difficulty, category |-> category]

Difficulties == {"all", "basic", "intermediate", "advanced", "easy"}
Categories == {"all", "daily_life", "work", "travel", "culture"}
EikenLevels == {"", " ", "5", "3", "1", "9"}

\* What the model answers to the problem generation prompt: raised; no text;
\* text without a JSON object; JSON without the key english; a problem, with
\* or without the keys difficulty and category ("": without).
ProblemOutcomes ==
  {[raised |-> TRUE, text |-> "", english |-> "", difficulty |-> "", category |-> ""],
   [raised |-> FALSE, text |-> "", english |-> "", difficulty |-> "", category |-> ""],
   [raised |-> FALSE, text |-> "no json", english |-> "", difficulty |-> "", category |-> ""],
   [raised |-> FALSE, text |-> "{}", english |-> "", difficulty |-> "", category |-> ""],
   [raised |-> FALSE, text |-> "{...}", english |-> "I like cats.", difficulty |-> "", category |-> ""],
   [raised |-> FALSE, text |-> "{...}", english |-> "I like cats.", difficulty |-> "hard", category |-> "pets"]}

\* main.py:1168-1243: the answer from the static list.
StaticProblem(r, i) ==
  Return(r, 200,
         InstantTranslationProblem(TRANSLATION_PROBLEMS[i].english,
                                   TRANSLATION_PROBLEMS[i].difficulty,
                                   TRANSLATION_PROBLEMS[i].category),
         FALSE, "static")

\* From the entry to run_in_executor (main.py:1084-1100) or, without a level
\* or without the model, to the answer.  long_text_mode goes into the prompt
\* only.
get_instant_translation_problem_call(p, difficulty, category, eiken_level) ==
  /\ CanStart(p)
  /\ nreq' = nreq + 1
  /\ LET r == [Arrive(p, "get_instant_translation_problem", "", NoKey)
                 EXCEPT !.args = <<difficulty, category, eiken_level>>] IN
     IF eiken_level # "" /\ strip(Chars(eiken_level)) # <<>> /\ model
       THEN Submit(p, r)
       ELSE /\ \E i \in filtered_problems(difficulty, category, eiken_level) :
                 req' = [req EXCEPT ![p] = StaticProblem(r, i)]
            /\ UNCHANGED work_queue
  /\ UNCHANGED <<now, hash_seed, GEMINI_API_KEY, response_cache, reaper,
                 lastStore, last_request_time>>

\* The awaited generate_content call ends with `out` (main.py:1102-1243).
get_instant_translation_problem_complete(p, out) ==
  /\ LoopFree
  /\ req[p].pc = "computing"
  /\ req[p].endpoint = "get_instant_translation_problem"
  /\ LET difficulty == req[p].args[1]
         category == req[p].args[2]
         eiken_level == req[p].args[3]
         category_for_ai == IF category # "all" THEN category ELSE "general"
     IN  IF ~out.raised /\ out.english # ""
           THEN Release(p, Return(req[p], 200,
                  InstantTranslationProblem(
                    out.english,
                    IF out.difficulty # "" THEN out.difficulty
                    ELSE IF eiken_level \in DOMAIN eiken_to_difficulty
                           THEN eiken_to_difficulty[eiken_level] ELSE "medium",
                    IF out.category # "" THEN out.category ELSE category_for_ai),
                  FALSE, "ai"))
           ELSE \E i \in filtered_problems(difficulty, category, eiken_level) :
                  Release(p, StaticProblem(req[p], i))
  /\ UNCHANGED <<now, hash_seed, GEMINI_API_KEY, response_cache, nreq, reaper,
                 lastStore, last_request_time>>

----------------------------------------------------------------------------
\* fetch_trivia_question, services/listening_service.py:37-89.

\* services/listening_service.py:12-34
get_trivia_categories ==
  (9 :> "General Knowledge") @@ (10 :> "Books") @@ (11 :> "Film")
  @@ (12 :> "Music") @@ (14 :> "Television") @@ (15 :> "Video Games")
  @@ (16 :> "Board Games") @@ (17 :> "Science & Nature")
  @@ (18 :> "Computer Science") @@ (19 :> "Mathematics") @@ (20 :> "Mythology")
  @@ (21 :> "Sports") @@ (22 :> "Geography") @@ (23 :> "History")
  @@ (24 :> "Politics") @@ (25 :> "Art") @@ (26 :> "Celebrities")
  @@ (27 :> "Animals") @@ (28 :> "Vehicles")

\* html.unescape, on the strings of the model.
unescape(s) ==
  CASE s = "Tom &amp; Jerry" -> "Tom & Jerry"
    [] s = "Who chases &quot;Jerry&quot;?" -> "Who chases \"Jerry\"?"
    [] OTHER -> s

\* A function that returns without a return statement returns None.
None == [none |-> TRUE]

\* models.py:136-148.  The model has no field id: the id the caller passes
\* is dropped.  explanation is a sentence about difficulty and category.
ListeningProblem(id, question, correct_answer, choices, category, difficulty) ==
  [question |-> question, correct_answer |-> correct_answer,
   choices |-> choices, category |-> category, difficulty |-> difficulty]

\* services/listening_service.py:79-87
FallbackProblem ==
  ListeningProblem("fallback_001", "What is the capital of Japan?", "Tokyo",
                   <<"Tokyo", "Osaka", "Kyoto", "Hiroshima">>, "Geography", "easy")

\* random.shuffle(all_answers): every order of the list.
shuffle(all_answers) ==
  {[i \in DOMAIN all_answers |-> all_answers[f[i]]] :
     f \in Permutations(DOMAIN all_answers)}

\* f"trivia_{random.randint(1000, 9999)}": the ends of the range.
TriviaIds == {"trivia_1000", "trivia_9999"}

\* One entry of data["results"].
QuestionData ==
  [question |-> "Who chases &quot;Jerry&quot;?",
   correct_answer |-> "Tom &amp; Jerry",
   incorrect_answers |-> <<"Spike", "Tyke", "Butch">>,
   difficulty |-> "medium"]

\* What client.get(url) and response.json() give: an exception (network
\* error, no JSON); a question (response_code 0); no question, with
\* response_code 0, 1 (no results) or 5 (too many requests).
ApiOutcomes ==
  {[raised |-> TRUE, response_code |-> 0, results |-> <<>>],
   [raised |-> FALSE, response_code |-> 0, results |-> <<QuestionData>>],
   [raised |-> FALSE, response_code |-> 0, results |-> <<>>],
   [raised |-> FALSE, response_code |-> 1, results |-> <<>>],
   [raised |-> FALSE, response_code |-> 5, results |-> <<>>]}

\* From the entry to `await client.get(url)`.
fetch_trivia_question_call(p, category_id) ==
  /\ CanStart(p)
  /\ nreq' = nreq + 1
  /\ req' = [req EXCEPT ![p] =
               [Arrive(p, "fetch_trivia_question", "", NoKey)
                  EXCEPT !.pc = "awaiting", !.computed = TRUE, !.t = now,
                         !.args = <<category_id>>]]
  /\ UNCHANGED <<now, hash_seed, GEMINI_API_KEY, response_cache, reaper,
                 lastStore, work_queue, last_request_time>>

\* The awaited client.get ends with `out`.
fetch_trivia_question_complete(p, out) ==
  /\ LoopFree
  /\ req[p].pc = "awaiting"
  /\ req[p].endpoint = "fetch_trivia_question"
  /\ LET categories == get_trivia_categories
         category_id == req[p].args[1]
     IN  IF out.raised
           THEN req' = [req EXCEPT ![p] =
                          Return(req[p], 0, FallbackProblem, FALSE, "raise")]
           ELSE IF out.response_code = 0 /\ out.results # <<>>
             THEN LET question_data == out.results[1]
                      question == unescape(question_data.question)
                      correct_answer == unescape(question_data.correct_answer)
                      incorrect_answers ==
                        [i \in DOMAIN question_data.incorrect_answers |->
                           unescape(question_data.incorrect_answers[i])]
                      all_answers == <<correct_answer>> \o incorrect_answers
                  IN  \E choices \in shuffle(all_answers), id \in TriviaIds :
                        req' = [req EXCEPT ![p] =
                                  Return(req[p], 0,
                                         ListeningProblem(id, question, correct_answer,
                                                          choices, categories[category_id],
                                                          question_data.difficulty),
                                         FALSE, "ok")]
             ELSE \* the try block ends without a return
                  req' = [req EXCEPT ![p] = Return(req[p], 0, None, FALSE, "none")]
  /\ UNCHANGED <<now, hash_seed, GEMINI_API_KEY, response_cache, nreq, reaper,
                 lastStore, work_queue, last_request_time>>

----------------------------------------------------------------------------
\* The cleanup thread: periodic_cache_cleanup (main.py:844-848) calling
\* optimize_cache_cleanup (main.py:820-836).

\* time.sleep(300) is over; current_time is read and the iteration over
\* response_cache.items() begins.
reaper_wake ==
  /\ reaper.pc = "sleep"
  /\ now >= reaper.wake_at
  /\ reaper' = [reaper EXCEPT !.pc = "iter", !.current_time = now,
                              !.expired_keys = {},
                              !.iter_len = Cardinality(DOMAIN response_cache)]
  /\ UNCHANGED <<now, hash_seed, GEMINI_API_KEY, response_cache, req, nreq,
                 lastStore, work_queue, last_request_time>>

\* The first loop.  A dict that gained a key since the iteration began makes
\* the iterator raise RuntimeError; nothing catches it and the thread ends.
reaper_scan ==
  /\ reaper.pc = "iter"
  /\ IF Cardinality(DOMAIN response_cache) # reaper.iter_len
       THEN reaper' = [reaper EXCEPT !.pc = "dead"]
       ELSE reaper' = [reaper EXCEPT
                         !.pc = "delete",
                         !.expired_keys =
                            {key \in DOMAIN response_cache :
                               Expired(response_cache[key].timestamp,
                                       reaper.current_time)}]
  /\ UNCHANGED <<now, hash_seed, GEMINI_API_KEY, response_cache, req, nreq,
                 lastStore, work_queue, last_request_time>>

\* The second loop and the print of len(expired_keys); then the next sleep.
reaper_delete ==
  /\ reaper.pc = "delete"
  /\ response_cache' = Del(response_cache, reaper.expired_keys)
  /\ reaper' = [reaper EXCEPT !.pc = "sleep",
                              !.removed = Cardinality(reaper.expired_keys),
                              !.wake_at = now + SLEEP_SECONDS]
  /\ UNCHANGED <<now, hash_seed, GEMINI_API_KEY, req, nreq, lastStore,
                 work_queue, last_request_time>>

\* The answer of slot p has been sent; the slot is free again.
Finish(p) ==
  /\ LoopFree
  /\ req[p].pc = "done"
  /\ req' = [req EXCEPT ![p] = IdleReq]
  /\ UNCHANGED <<now, hash_seed, GEMINI_API_KEY, response_cache, nreq, reaper,
                 lastStore, work_queue, last_request_time>>

\* Time passes.
Tick(t) ==
  /\ t > now
  /\ t <= MaxTime
  /\ now' = t
  /\ UNCHANGED <<hash_seed, GEMINI_API_KEY, response_cache, req, nreq, reaper,
                 lastStore, work_queue, last_request_time>>

\* Requests arrive at both handler slots and overlap.
Next ==
  \/ /\ nreq < MaxRequests
     /\ \E p \in Procs, text \in Texts, history \in Histories :
          respond_call(p, text, history)
  \/ \E p \in Procs : respond_read(p)
  \/ \E p \in Procs, out \in TextOutcomes : respond_complete(p, out)
  \/ /\ nreq < MaxRequests
     /\ \E p \in Procs, text \in Texts, history \in Histories :
          japanese_consultation_call(p, text, history)
  \/ \E p \in Procs : japanese_consultation_read(p)
  \/ \E p \in Procs, out \in TextOutcomes : japanese_consultation_complete(p, out)
  \/ /\ nreq < MaxRequests
     /\ \E p \in Procs, text \in Texts, voice_name \in Voices, speaking_rate \in Rates :
          text_to_speech_call(p, text, voice_name, speaking_rate)
  \/ \E p \in Procs : text_to_speech_read(p)
  \/ \E p \in Procs, out \in TtsOutcomes : text_to_speech_complete(p, out)
  \/ /\ nreq < MaxRequests
     /\ \E p \in Procs, text \in Texts, history \in Histories :
          respond_with_audio(p, text, history)
  \/ \E p \in Procs : Finish(p)
  \/ reaper_wake
  \/ reaper_scan
  \/ reaper_delete
  \/ \E t \in Instants : Tick(t)

Spec == Init /\ [][Next]_vars

\* One client that sends its requests one after the other (slot 1 only) to
\* respond and text_to_speech, next to the cleanup thread.
NextSeq ==
  \/ /\ nreq < MaxSeqRequests
     /\ \E text \in Texts, history \in Histories : respond_call(1, text, history)
  \/ respond_read(1)
  \/ \E out \in TextOutcomes : respond_complete(1, out)
  \/ /\ nreq < MaxSeqRequests
     /\ \E text \in Texts, voice_name \in Voices, speaking_rate \in Rates :
          text_to_speech_call(1, text, voice_name, speaking_rate)
  \/ text_to_speech_read(1)
  \/ \E out \in TtsOutcomes : text_to_speech_complete(1, out)
  \/ Finish(1)
  \/ reaper_wake
  \/ reaper_scan
  \/ reaper_delete
  \/ \E t \in Instants : Tick(t)

SpecSeq == Init /\ [][NextSeq]_vars

\* Two clients of respond whose requests overlap, next to the cleanup thread.
NextPair ==
  \/ /\ nreq < MaxPairRequests
     /\ \E p \in Procs, text \in Texts, history \in Histories :
          respond_call(p, text, history)
  \/ \E p \in Procs : respond_read(p)
  \/ \E p \in Procs, out \in TextOutcomes : respond_complete(p, out)
  \/ \E p \in Procs : Finish(p)
  \/ reaper_wake
  \/ reaper_scan
  \/ reaper_delete
  \/ \E t \in Instants : Tick(t)

SpecPair == Init /\ [][NextPair]_vars

\* SpecSeq with the scheduling the program can count on: the cleanup thread
\* gets to run, the event loop runs the handlers that are ready (a lookup to
\* finish, an answer to send), and time passes.  Nothing makes an upstream
\* service answer: no fairness for the end of a generate_content call.
SpecLive ==
  /\ Init
  /\ [][NextSeq]_vars
  /\ WF_vars(reaper_wake)
  /\ WF_vars(reaper_scan)
  /\ WF_vars(reaper_delete)
  /\ WF_vars(respond_read(1))
  /\ WF_vars(text_to_speech_read(1))
  /\ WF_vars(Finish(1))
  /\ WF_vars(\E t \in Instants : Tick(t))

\* Many clients at once: conversation requests, which go through the
\* executor, next to the two listening endpoints, which do not.  What the
\* upstreams answer has no part in who runs where, so every call is answered
\* normally; the clock makes the one step that ends a rate limit sleep, before
\* the cleanup thread's first wake.
PoolTexts == {"hello"}
PoolInstants == {10}
PoolTextOutcomes == {out \in TextOutcomes : ~out.raised /\ out.text # ""}
PoolTriviaOutcomes == {out \in TriviaOutcomes : ~out.raised}

NextPool ==
  \/ /\ nreq < MaxPoolRequests
     /\ \E p \in AllProcs, text \in PoolTexts, history \in Histories :
          respond_call(p, text, history)
  \/ \E p \in AllProcs : respond_read(p)
  \/ \E p \in AllProcs, out \in PoolTextOutcomes : respond_complete(p, out)
  \/ /\ nreq < MaxPoolRequests
     /\ \E p \in AllProcs : check_listening_answer_call(p)
  \/ \E p \in AllProcs, out \in PoolTextOutcomes :
       check_listening_answer_return(p, out)
  \/ /\ nreq < MaxPoolRequests
     /\ \E p \in AllProcs : get_listening_problem_call(p)
  \/ \E p \in AllProcs : get_listening_problem_wake(p)
  \/ \E p \in AllProcs, out \in PoolTriviaOutcomes :
       get_listening_problem_complete(p, out)
  \/ \E p \in AllProcs : Finish(p)
  \/ \E t \in PoolInstants : Tick(t)

SpecPool == Init /\ [][NextPool]_vars

\* One client of the functions that keep nothing between two calls.
NextApi ==
  \/ /\ nreq < MaxApiRequests
     /\ \E correctAnswer \in CorrectAnswers, userAnswer \in UserAnswers :
          check_instant_translation_answer_call(1, correctAnswer, userAnswer)
  \/ \E out \in CheckOutcomes : check_instant_translation_answer_complete(1, out)
  \/ /\ nreq < MaxApiRequests
     /\ \E difficulty \in Difficulties, category \in Categories,
           eiken_level \in EikenLevels :
          get_instant_translation_problem_call(1, difficulty, category, eiken_level)
  \/ \E out \in ProblemOutcomes : get_instant_translation_problem_complete(1, out)
  \/ /\ nreq < MaxApiRequests
     /\ \E category_id \in DOMAIN get_trivia_categories :
          fetch_trivia_question_call(1, category_id)
  \/ \E out \in ApiOutcomes : fetch_trivia_question_complete(1, out)
  \/ Finish(1)

SpecApi == Init /\ [][NextApi]_vars

----------------------------------------------------------------------------
\* Vocabulary of the properties.

\* The TTL a store was made with: "error" marks the store with the shifted
\* timestamp (main.py:364-367), "success" every store stamped time.time().
Ttl(cat) == IF cat = "error" THEN ERROR_TTL ELSE CACHE_TTL

\* Slot p takes a step of its cache lookup: the membership test, or the
\* read of the entry with the TTL test.
LookupStep(p) ==
  /\ req[p].pc \in {"idle", "checked"}
  /\ req'[p] # req[p]
  /\ req'[p].key # NoKey

\* The step with which the lookup of slot p is decided: hit, miss or KeyError.
Decides(p) == LookupStep(p) /\ req'[p].pc # "checked"

\* The lookup of slot p returned the value of the last store to its key.
HitWith(p, ls) ==
  /\ req'[p].pc = "done"
  /\ req'[p].hit
  /\ ~req'[p].computed
  /\ req'[p].body = ls.data

\* The awaited call of slot p ended with this step.
Completes(p) == req[p].pc = "computing" /\ req'[p].pc = "done"

----------------------------------------------------------------------------
\* C1 (freshness): a lookup of k less than 300 seconds after the last store
\* to k, when that store was of a successful result v, is a hit and returns
\* v, whatever happened to other keys and whatever the cleanup thread did.
C1_Freshness ==
  [][\A p \in Procs :
       Decides(p) =>
         LET ls == lastStore[req'[p].key] IN
           (ls.valid /\ ls.cat = "success" /\ ~ls.data.use_browser_tts
              /\ now - ls.t0 < CACHE_TTL)
             => HitWith(p, ls)]_vars

\* C2 (expiry): a lookup of k 300 seconds or more after the last store to k
\* (a success) is no hit, and no step of the lookup changes or removes the
\* entry that is in the cache under k.
C2_Expiry ==
  [][\A p \in Procs :
       LookupStep(p) =>
         LET k == req'[p].key
             ls == lastStore[k]
         IN  (ls.valid /\ ls.cat = "success" /\ now - ls.t0 >= CACHE_TTL)
               => /\ ~req'[p].hit
                  /\ k \in DOMAIN response_cache =>
                       /\ k \in DOMAIN response_cache'
                       /\ response_cache'[k] = response_cache[k]]_vars

\* C2's case: a request that looked k up 300 seconds or more after the
\* success was stored is computing, and the stale entry is still in the cache.
C2_Witness ==
  \E p \in Procs :
    /\ req[p].pc = "computing"
    /\ req[p].key \in DOMAIN response_cache
    /\ LET ls == lastStore[req[p].key] IN
         /\ ls.valid
         /\ ls.cat = "success"
         /\ response_cache[req[p].key] = Entry(ls.data, ls.t0)
         /\ req[p].t - ls.t0 >= CACHE_TTL

\* C3 (error TTL): a lookup of k after the last store to k, when that store
\* was of an error fallback at t0, is a hit exactly when it is made less than
\* 30 seconds after t0.
C3_ErrorTtl ==
  [][\A p \in Procs :
       Decides(p) =>
         LET ls == lastStore[req'[p].key] IN
           (ls.valid /\ ls.cat = "error")
             => (HitWith(p, ls) <=> now - ls.t0 < ERROR_TTL)]_vars

\* The keys whose entry is older than the TTL it was stored with, at time t.
StaleKeys(t) ==
  {k \in DOMAIN response_cache :
     lastStore[k].valid /\ t - lastStore[k].t0 > Ttl(lastStore[k].cat)}

\* C4 (sweep): the scan collects exactly the keys whose entries are older
\* than their own TTL (300 s for a success, 30 s for an error) at the sweep's
\* current_time; the deletion removes the collected keys and nothing else,
\* leaves N - M entries unchanged and reports M.
C4_SweepExact ==
  [][/\ (reaper.pc = "iter" /\ reaper'.pc = "delete")
          => reaper'.expired_keys = StaleKeys(reaper.current_time)
     /\ (reaper.pc = "delete" /\ reaper'.pc = "sleep")
          => /\ reaper.expired_keys \subseteq DOMAIN response_cache
             /\ DOMAIN response_cache' = DOMAIN response_cache \ reaper.expired_keys
             /\ \A k \in DOMAIN response_cache' : response_cache'[k] = response_cache[k]
             /\ reaper'.removed = Cardinality(reaper.expired_keys)
             /\ Cardinality(DOMAIN response_cache')
                  = Cardinality(DOMAIN response_cache) - reaper'.removed]_vars

\* C4's case: a sweep has just ended that removed entries and kept others.
C4_Witness ==
  /\ reaper.pc = "sleep"
  /\ reaper.wake_at = now + SLEEP_SECONDS
  /\ reaper.removed >= 1
  /\ \E k \in DOMAIN response_cache :
       lastStore[k].t0 <= reaper.wake_at - SLEEP_SECONDS - ERROR_TTL

\* C5 (no redundant compute): a call for k that looks k up within the TTL
\* window of the value an earlier call stored under k does not invoke
\* generate_content and returns the stored value.
C5_NoRecompute ==
  [][\A p \in Procs :
       Decides(p) =>
         LET ls == lastStore[req'[p].key] IN
           (ls.valid /\ now - ls.t0 < Ttl(ls.cat))
             => (~req'[p].computed /\ req'[p].pc = "done"
                 /\ req'[p].body = ls.data)]_vars

\* A successful answer of the model: a reply, or audio.
SuccessData(d) ==
  \/ d.kind = "text" /\ d.reply \in Replies
  \/ d.kind = "tts" /\ d.audio_data \in Audios /\ ~d.use_browser_tts

\* C6 (store on success): when the awaited call of a request that missed
\* ends successfully with T, the request returns T and right after that step
\* the cache holds (T, now) under the request's key, stored as a success.
C6_StoreOnSuccess ==
  [][\A p \in Procs :
       (Completes(p) /\ req'[p].outcome = "ok") =>
         LET k == req[p].key
             T == req'[p].body
         IN  /\ req'[p].status = 200
             /\ SuccessData(T)
             /\ k \in DOMAIN response_cache'
             /\ response_cache'[k] = Entry(T, now)
             /\ lastStore'[k] = Stored(T, now, "success")]_vars

\* C6's case: a request that missed has just returned the model's answer and
\* the cache holds it under the request's key.
C6_Witness ==
  \E p \in Procs :
    /\ req[p].pc = "done"
    /\ req[p].computed
    /\ req[p].outcome = "ok"
    /\ req[p].t = now
    /\ req[p].key \in DOMAIN response_cache
    /\ response_cache[req[p].key] = Entry(req[p].body, now)
    /\ req[p].endpoint = "text_to_speech"

\* C7 (containment): every answer of respond, japanese_consultation,
\* respond_with_audio and of text_to_speech with a configured model is a
\* normal response with a reply, audio or a fallback text; no exception
\* leaves the handler.
C7_Containment ==
  \A p \in Procs :
    (/\ req[p].pc = "done"
     /\ (req[p].endpoint = "text_to_speech" => tts_model))
      => /\ req[p].status = 200
         /\ \/ req[p].body.reply # ""
            \/ req[p].body.audio_data # ""
            \/ req[p].body.fallback_text # ""

\* C8 (errors are cached): when generate_content raises for a request, the
\* fallback the request returns is stored under its key as an error entry.
C8_ErrorsCached ==
  [][\A p \in Procs :
       (Completes(p) /\ req'[p].outcome = "raise") =>
         LET k == req[p].key IN
           /\ k \in DOMAIN response_cache'
           /\ response_cache'[k].data = req'[p].body
           /\ lastStore'[k] = Stored(req'[p].body, now, "error")]_vars

\* C9 (error then recovery): after an error fallback was stored under k at
\* t0, a call at t0 + 10 returns that fallback without invoking the model; a
\* call at t0 + 31 or later invokes the model, and when the model then
\* answers, the call returns the answer and a success entry replaces the
\* fallback.
C9_ErrorThenRecovery ==
  [][\A p \in Procs :
       LET k == req'[p].key
           ls == lastStore[k]
           wasError == ls.valid /\ ls.cat = "error"
       IN  /\ (Decides(p) /\ wasError /\ now - ls.t0 = 10) => HitWith(p, ls)
           /\ (Decides(p) /\ wasError /\ now - ls.t0 >= ERROR_TTL + 1)
                => (req'[p].pc = "computing" /\ req'[p].computed)
           /\ (Completes(p) /\ wasError /\ req'[p].outcome = "ok")
                => /\ SuccessData(req'[p].body)
                   /\ k \in DOMAIN response_cache'
                   /\ response_cache'[k] = Entry(req'[p].body, now)]_vars

\* C10 (short TTL for every fallback): an entry whose value is a fallback
\* payload (use_browser_tts) is no longer fresh 30 seconds after its store.
C10_FallbackShortTtl ==
  \A k \in DOMAIN response_cache :
    (response_cache[k].data.use_browser_tts /\ lastStore[k].valid)
      => ~Fresh(response_cache[k].timestamp, lastStore[k].t0 + ERROR_TTL)

\* C11 (key injectivity): two requests of one endpoint that differ in text,
\* history or voice get different cache keys, whatever hash() does, and a
\* TTS lookup that hits hands the request a payload made for its own text.
C11_KeyInjectivity ==
  /\ \A t1, t2 \in Texts, h1, h2 \in Histories, prefix \in {"response", "consultation"} :
       <<t1, h1>> # <<t2, h2>>
         => ResponseKey(prefix, t1, h1) # ResponseKey(prefix, t2, h2)
  /\ \A t1, t2 \in Texts, v1, v2 \in Voices, r \in Rates :
       <<t1, v1>> # <<t2, v2>> => TtsKey(t1, v1, r) # TtsKey(t2, v2, r)
  /\ \A p \in Procs :
       (/\ req[p].pc = "done"
        /\ req[p].hit
        /\ req[p].endpoint = "text_to_speech"
        /\ req[p].body.use_browser_tts)
         => req[p].body.fallback_text = req[p].text

\* The lookup step of slot p finds its key absent at the membership test, or
\* present and stale at the read.
Misses(p) ==
  LET k == req'[p].key IN
    \/ req[p].pc = "idle" /\ k \notin DOMAIN response_cache
    \/ /\ req[p].pc = "checked"
       /\ k \in DOMAIN response_cache
       /\ ~Fresh(response_cache[k].timestamp, now)

InFlight == {q \in AllProcs : req[q].pc \in {"computing", "blocking", "http"}}

\* C13 (bounded in-flight calls): at most max_workers external calls run at
\* one time, and a call waits in the executor's queue only when all workers
\* are busy.
C13_BoundedInFlight ==
  /\ Cardinality(InFlight) <= max_workers
  /\ \A q \in AllProcs :
       req[q].pc = "queued" => Cardinality(PoolRunning) = max_workers

\* C14 (non-blocking compute): while an external call of a handler is under
\* way the event loop thread is free, so other handlers can run.
C14_NonBlocking ==
  \A q \in AllProcs : q \in InFlight => LoopFree

\* C15 (lookup never fails): every lookup ends as a hit, or as a miss that
\* goes on to invoke generate_content.
C15_LookupNeverFails ==
  [][\A p \in Procs :
       Decides(p) =>
         \/ req'[p].hit
         \/ req'[p].pc \in {"computing", "queued"} /\ req'[p].computed]_vars

\* C16 (reaper resilience): the cleanup thread is never dead.
C16_ReaperResilience == reaper.pc # "dead"

\* Slot p makes a step of its own handler (not the step of a worker that
\* takes its queued call).
Acts(p) == req'[p] # req[p] /\ req[p].pc # "queued"

\* C18 (only the sweep removes entries): a lookup that hits or finds a stale
\* entry leaves the cache unchanged; a handler step inserts or overwrites at
\* most the entry of its own key and leaves every other entry as it is; a
\* key leaves the cache only in the deletion step of the cleanup thread.
C18_OnlySweepRemoves ==
  [][/\ \A p \in Procs :
          (LookupStep(p) /\ (req'[p].hit \/ req'[p].pc \in {"checked", "computing", "queued"}))
            => response_cache' = response_cache
     /\ \A p \in Procs :
          Acts(p) =>
            /\ DOMAIN response_cache \subseteq DOMAIN response_cache'
            /\ DOMAIN response_cache' \subseteq DOMAIN response_cache \cup {req'[p].key}
            /\ \A k \in DOMAIN response_cache :
                 k # req'[p].key => response_cache'[k] = response_cache[k]
     /\ (DOMAIN response_cache \ DOMAIN response_cache' # {})
          => (reaper.pc = "delete" /\ reaper'.pc = "sleep")]_vars

\* C18's case: a handler has just stored under its key while the cache holds
\* the entry of another key, stored earlier.
C18_Witness ==
  \E p \in Procs :
    /\ req[p].pc = "done" /\ req[p].computed /\ req[p].t = now
    /\ req[p].key \in DOMAIN response_cache
    /\ response_cache[req[p].key].timestamp \in {now, ErrorTimestamp(now)}
    /\ \E k \in DOMAIN response_cache :
         /\ k # req[p].key
         /\ lastStore[k].valid
         /\ lastStore[k].t0 < now
         /\ response_cache[k] = Entry(lastStore[k].data,
                                      IF lastStore[k].cat = "error"
                                        THEN ErrorTimestamp(lastStore[k].t0)
                                        ELSE lastStore[k].t0)

\* C20 (/api/tts): the answer is the 503 error exactly when the TTS model is
\* not configured, and that answer leaves the cache as it is; with the model
\* configured every answer is a normal response that carries audio_data and
\* content_type.
C20_TtsAnswers ==
  [][\A p \in Procs :
       (req[p].pc # "done" /\ req'[p].pc = "done"
          /\ req'[p].endpoint = "text_to_speech")
         => /\ (req'[p].status = 503) <=> ~GEMINI_API_KEY
            /\ ~GEMINI_API_KEY => response_cache' = response_cache
            /\ GEMINI_API_KEY
                 => /\ req'[p].status = 200
                    /\ req'[p].body.kind = "tts"
                    /\ req'[p].body.content_type # ""]_vars

\* C20's case: /api/tts, with the model configured, has answered a request
\* from the cache with a fallback payload.
C20_Witness ==
  \E p \in Procs :
    /\ req[p].pc = "done"
    /\ req[p].endpoint = "text_to_speech"
    /\ req[p].status = 200
    /\ req[p].hit
    /\ req[p].body.use_browser_tts

\* C17 (reaper liveness): an entry that is stale when a sweep is due is
\* eventually removed from the cache, unless a handler overwrites it.
C17_ReaperLiveness ==
  \A k \in AllKeys :
    (/\ k \in DOMAIN response_cache
     /\ Expired(response_cache[k].timestamp, now)
     /\ reaper.pc = "sleep"
     /\ now >= reaper.wake_at)
      ~> (\/ k \notin DOMAIN response_cache
          \/ ~Expired(response_cache[k].timestamp, now))

\* C19 (no unbounded hang): every request that missed the cache and awaits
\* its external call eventually has its answer, whether or not the upstream
\* service answers.
C19_NoHang ==
  \A p \in Procs : (req[p].pc = "computing") ~> (req[p].pc = "done")


----------------------------------------------------------------------------
\* C21: every answer of check_instant_translation_answer is a normal
\* response (status 200) whose score lies between 0 and 100, whether the
\* model is unconfigured, returns text, returns empty text, or raises.
C21_CheckAlwaysAnswers ==
  \A p \in AllProcs :
    (req[p].pc = "done" /\ req[p].endpoint = "check_instant_translation_answer")
      => /\ req[p].status = 200
         /\ req[p].body.score \in 0..100

\* C29: when the model graded the answer, isCorrect is true, with score 100,
\* only for the feedback 'Excellent!' or 'Good!', and the feedback
\* 'Not quite right' gives isCorrect false and score 70.
C29_GradingFollowsVerdict ==
  \A p \in AllProcs :
    (/\ req[p].pc = "done"
     /\ req[p].endpoint = "check_instant_translation_answer"
     /\ req[p].outcome = "ok")
      => /\ req[p].body.isCorrect => req[p].body.feedback \in {"Excellent!", "Good!"}
         /\ req[p].body.isCorrect => req[p].body.score = 100
         /\ req[p].body.feedback = "Not quite right"
              => (~req[p].body.isCorrect /\ req[p].body.score = 70)


----------------------------------------------------------------------------
\* The filters of get_instant_translation_problem as its interface states
\* them (main.py:1063-1073, 1183-1224): the difficulty a request targets
\* ("any": none) and the categories it accepts.
ExpectedDifficulty(difficulty, eiken_level) ==
  IF eiken_level \in {"5", "4"} THEN "easy"
  ELSE IF eiken_level \in {"3", "pre-2", "2"} THEN "medium"
  ELSE IF eiken_level \in {"pre-1", "1"} THEN "hard"
  ELSE IF difficulty = "all" THEN "any"
  ELSE IF difficulty = "basic" THEN "easy"
  ELSE IF difficulty = "advanced" THEN "hard"
  ELSE "medium"

ExpectedCategories(category) ==
  IF category = "daily_life" THEN {"daily_life", "daily_routine", "preferences"}
  ELSE IF category = "work" THEN {"business", "work"}
  ELSE IF category = "travel" THEN {"travel", "transportation"}
  ELSE IF category = "education" THEN {"learning", "education"}
  ELSE IF category \in {"culture", "environment"} THEN {"general"}
  ELSE {category}

\* The request of slot p has been answered from the static list.
StaticAnswer(p) ==
  /\ req[p].pc = "done"
  /\ req[p].endpoint = "get_instant_translation_problem"
  /\ req[p].outcome = "static"

\* The problem has the difficulty and the category the arguments ask for.
Honours(problem, args) ==
  /\ ExpectedDifficulty(args[1], args[3]) # "any"
       => problem.difficulty = ExpectedDifficulty(args[1], args[3])
  /\ args[2] # "all" => problem.category \in ExpectedCategories(args[2])

\* C28, as stated: a problem answered from the static list has the target
\* difficulty when a difficulty other than 'all' or a recognised eiken level
\* is requested, and a category mapped from the requested one when a
\* category other than 'all' is requested.
C28_FiltersHonoured ==
  \A p \in AllProcs : StaticAnswer(p) => Honours(req[p].body, req[p].args)

\* C28, amended: the same, for the requests whose filters at least one
\* problem of the static list passes; when no problem passes both filters
\* the handler draws from the whole list.
C28_FiltersHonouredWhenMatched ==
  \A p \in AllProcs :
    (/\ StaticAnswer(p)
     /\ \E i \in DOMAIN TRANSLATION_PROBLEMS :
          Honours(TRANSLATION_PROBLEMS[i], req[p].args))
      => Honours(req[p].body, req[p].args)

\* A request with an eiken level that outranks its difficulty, and with a
\* category, has been answered from the static list with a matching problem.
C28_Witness ==
  \E p \in AllProcs :
    /\ StaticAnswer(p)
    /\ req[p].args = <<"advanced", "work", "5">>
    /\ req[p].body.difficulty = "easy"
    /\ req[p].body.category = "work"

\* C30: fetch_trivia_question returns a ListeningProblem, never nothing: the
\* fetched problem, whose correct_answer is among its choices, or the fixed
\* fallback problem.
C30_AlwaysAProblem ==
  \A p \in AllProcs :
    (req[p].pc = "done" /\ req[p].endpoint = "fetch_trivia_question")
      => /\ req[p].body # None
         /\ \/ req[p].body = FallbackProblem
            \/ \E i \in DOMAIN req[p].body.choices :
                 req[p].body.choices[i] = req[p].body.correct_answer


----------------------------------------------------------------------------
\* The step of the cleanup thread that deletes the collected keys.
SweepDeletes == reaper.pc = "delete" /\ reaper'.pc = "sleep"

\* C22 (sweep against concurrent stores): the sweep never deletes an entry
\* that is fresh at the moment of the deletion, handlers storing between its
\* scan and its deletion included.
C22_SweepSafe ==
  [][SweepDeletes =>
       \A k \in DOMAIN response_cache \ DOMAIN response_cache' :
         ~Fresh(response_cache[k].timestamp, now)]_vars

\* C23 (lookup and sweep agree): right after a sweep that read the clock at
\* `now` and ran with no store since, every entry left in the cache would be
\* a hit of a lookup at `now`.
C23_LookupSweepAgree ==
  [][(/\ SweepDeletes
      /\ now = reaper.current_time
      /\ \A k \in AllKeys :
           lastStore[k].valid => lastStore[k].t0 < reaper.current_time)
       => \A k \in DOMAIN response_cache' :
            Fresh(response_cache'[k].timestamp, now)]_vars

\* C24 (trivia rate limit): a request of get_listening_problem is sent to
\* the trivia API 5 seconds or more after the one sent before it.
C24_TriviaRateLimit ==
  [][\A p \in AllProcs :
       (/\ req[p].pc # "http"
        /\ req'[p].pc = "http"
        /\ req'[p].endpoint = "get_listening_problem"
        /\ last_request_time # -1)
         => now - last_request_time >= RATE_LIMIT_SECONDS]_vars

\* C25 (a good entry is not degraded): no step replaces a fresh success
\* entry under a TTS key by an error fallback.
C25_GoodEntryKept ==
  [][\A k \in DOMAIN response_cache :
       (/\ k.prefix = "tts"
        /\ SuccessData(response_cache[k].data)
        /\ Fresh(response_cache[k].timestamp, now)
        /\ k \in DOMAIN response_cache')
         => response_cache'[k].data.error = ""]_vars

\* C26 (audio or fallback, never neither): a response of text_to_speech or
\* respond_with_audio whose audio_data is empty has use_browser_tts set.
C26_AudioOrFallback ==
  \A p \in AllProcs :
    (/\ req[p].pc = "done"
     /\ req[p].endpoint \in {"text_to_speech", "respond_with_audio"}
     /\ req[p].status = 200
     /\ req[p].body.audio_data = "")
      => req[p].body.use_browser_tts

\* C27 (respond_with_audio and the conversation cache): with the model
\* configured, a request that finds a fresh entry under its response key
\* answers with that reply and does not call the model, and a request that
\* finds none goes on to the model.
C27_AudioUsesResponseCache ==
  [][\A p \in Procs, text \in Texts, history \in Histories :
       (respond_with_audio(p, text, history) /\ model) =>
         LET cache_key == ResponseKey("response", text, history) IN
           IF /\ cache_key \in DOMAIN response_cache
              /\ Fresh(response_cache[cache_key].timestamp, now)
             THEN /\ req'[p].status = 200
                  /\ req'[p].body.reply = response_cache[cache_key].data.reply
                  /\ ~req'[p].computed
             ELSE req'[p].computed]_vars

====
